---- MODULE Spec2Model ----
(***************************************************************************)
(* Google Fonts Explorer (src/src/main.py): the family resolver, the       *)
(* stylesheet fetcher and parser, the catalog listing and the preview      *)
(* cache populated by background threads.                                  *)
(*                                                                         *)
(* Strings are sequences of one-character strings.  None is the empty      *)
(* tuple <<>> and a present value x is the one-element tuple <<x>>, except *)
(* for a resolved family name, where None is the sequence <<"None">>       *)
(* (never a name, since "None" is not a character).                        *)
(***************************************************************************)
EXTENDS Integers, Sequences, FiniteSets, TLC

VARIABLES
    \* find_font_family called on its own
    search_name, metadata, resolved, rpc,
    \* list_available_fonts called on its own
    lmetadata, limit, listed, lpc,
    \* the stylesheet parser of get_font_urls called on its own
    css_content, font_faces, all_urls, ppc,
    \* one call of get_font_urls
    family_name, correct_family_name, css_url, font_data, fpc,
    metaRequests, cssRequests, metaOutcome, cssOutcome, escaped,
    \* main(page): the page, and the threads page.run_thread started
    preview_fonts, fonts, theme_font_family, pc, tfamily, turl, nthreads,
    failedKeys, afterFail

rvars == <<search_name, metadata, resolved, rpc>>
lvars == <<lmetadata, limit, listed, lpc>>
pvars == <<css_content, font_faces, all_urls, ppc>>
fvars == <<family_name, correct_family_name, css_url, font_data, fpc,
           metaRequests, cssRequests, metaOutcome, cssOutcome, escaped>>
mvars == <<preview_fonts, fonts, theme_font_family, pc, tfamily, turl,
           nthreads, failedKeys, afterFail>>
vars == <<rvars, lvars, pvars, fvars, mvars>>

----------------------------------------------------------------------------
(* Bounds *)

\* longest family name or search text drawn as an input
MaxName == 2
\* longest familyMetadataList drawn as an input
MaxCat == 2

----------------------------------------------------------------------------
(* Strings *)

Chars == {"a", "A", " "}

\* str.lower() on one character
LowerChar(c) == IF c = "A" THEN "a" ELSE IF c = "B" THEN "b" ELSE c

\* str.replace(x, y) for one-character x and y
Replace(s, x, y) == [i \in 1..Len(s) |-> IF s[i] = x THEN y ELSE s[i]]

\* `not s.strip()`: s is empty or all white space
IsBlank(s) == \A i \in 1..Len(s) : s[i] = " "

\* str.lower()
Lower(s) == [i \in 1..Len(s) |-> LowerChar(s[i])]

\* the Python test `s in t` on strings
Contains(s, t) ==
    \E i \in 0..(Len(t) - Len(s)) : SubSeq(t, i + 1, i + Len(s)) = s

StringsUpTo(n) == UNION {[1..k -> Chars] : k \in 0..n}

SeqsUpTo(S, n) == UNION {[1..k -> S] : k \in 0..n}

Names == StringsUpTo(MaxName)

\* the values get_google_fonts_metadata can return: None, or the parsed
\* JSON, of which only familyMetadataList (each entry's "family", "" when
\* the entry has none) is read
NoMetadata == <<>>
Catalogs == SeqsUpTo(Names, MaxCat)
Metadatas == {NoMetadata} \cup {<<c>> : c \in Catalogs}

----------------------------------------------------------------------------
(* find_font_family *)

NotFound == <<"None">>

RECURSIVE FirstExact(_, _, _)
\* the loop of lines 25-28 from entry i on
FirstExact(search_name_lower, family_list, i) ==
    IF i > Len(family_list) THEN NotFound
    ELSE IF Lower(family_list[i]) = search_name_lower THEN family_list[i]
    ELSE FirstExact(search_name_lower, family_list, i + 1)

RECURSIVE FirstContaining(_, _, _)
\* the loop of lines 30-33 from entry i on
FirstContaining(search_name_lower, family_list, i) ==
    IF i > Len(family_list) THEN NotFound
    ELSE IF Contains(search_name_lower, Lower(family_list[i]))
         THEN family_list[i]
    ELSE FirstContaining(search_name_lower, family_list, i + 1)

\* a resolver with the exact-match pass left out
find_font_family_one_pass(name, md) ==
    IF md = NoMetadata THEN NotFound
    ELSE FirstContaining(Lower(name), md[1], 1)

\* a resolver that returns the lower-cased name of the entry it found
find_font_family_lowered(name, md) ==
    IF md = NoMetadata THEN NotFound
    ELSE LET exact == FirstExact(Lower(name), md[1], 1)
             r == IF exact # NotFound THEN exact
                  ELSE FirstContaining(Lower(name), md[1], 1)
         IN  IF r = NotFound THEN NotFound ELSE Lower(r)

find_font_family(name, md) ==
    IF md = NoMetadata THEN NotFound
    ELSE LET search_name_lower == Lower(name)
             family_list == md[1]
             exact == FirstExact(search_name_lower, family_list, 1)
         IN  IF exact # NotFound THEN exact
             ELSE FirstContaining(search_name_lower, family_list, 1)

\* the state of the other calls while find_font_family is the one running
RIdle == /\ search_name = <<>> /\ metadata = NoMetadata
         /\ resolved = NotFound /\ rpc = "idle"

RInit == /\ search_name \in Names
         /\ metadata \in Metadatas
         /\ resolved = NotFound
         /\ rpc = "call"

Resolve ==
    /\ rpc = "call"
    /\ resolved' = find_font_family(search_name, metadata)
    /\ rpc' = "done"
    /\ UNCHANGED <<search_name, metadata>>

----------------------------------------------------------------------------
(* list_available_fonts *)

\* largest limit drawn as an input
MaxLimit == 2

FontRow(name) == [family |-> name, display_name |-> name]

RECURSIVE ListLoop(_, _, _, _)
\* the loop of lines 106-112 from entry i on, with `acc` the list so far
ListLoop(family_list, i, acc, lim) ==
    IF i > Len(family_list) THEN acc
    ELSE LET acc2 == IF family_list[i] # <<>>
                     THEN Append(acc, FontRow(family_list[i]))
                     ELSE acc
         IN  IF Len(acc2) >= lim THEN acc2
             ELSE ListLoop(family_list, i + 1, acc2, lim)

list_available_fonts(lim, md) ==
    IF md = NoMetadata THEN <<>>
    ELSE ListLoop(md[1], 1, <<>>, lim)

LIdle == /\ lmetadata = NoMetadata /\ limit = 0
         /\ listed = <<>> /\ lpc = "idle"

LInit == /\ lmetadata \in Metadatas
         /\ limit \in 0..MaxLimit
         /\ listed = <<>>
         /\ lpc = "call"

ListFonts ==
    /\ lpc = "call"
    /\ listed' = list_available_fonts(limit, lmetadata)
    /\ lpc' = "done"
    /\ UNCHANGED <<lmetadata, limit>>

----------------------------------------------------------------------------
(* The stylesheet parser of get_font_urls (lines 51-79).                   *)
(* A stylesheet body is the concatenation of a sequence of lexemes; no     *)
(* lexeme below contains a character that could complete one of the three  *)
(* regular expressions across a lexeme boundary, so each regular           *)
(* expression is matched lexeme by lexeme.                                 *)

\* longest stylesheet body drawn as an input, in lexemes
MaxBody == 6

BlockOpen == "/* latin */ @font-face {"
BlockClose == "}"
SrcUrl == "src: url("
Paren == ")"
UrlWoff2 == "https://x/a.woff2"
UrlTtf == "https://x/b.ttf"
Weight700 == "font-weight: 700;"
StyleItalic == "font-style: italic;"

Lexemes == {BlockOpen, BlockClose, SrcUrl, Paren, UrlWoff2, UrlTtf,
            Weight700, StyleItalic}

Bodies == SeqsUpTo(Lexemes, MaxBody)

\* the index of the first lexeme x at or after i, 0 when there is none
RECURSIVE IndexFrom(_, _, _)
IndexFrom(s, x, i) ==
    IF i > Len(s) THEN 0
    ELSE IF s[i] = x THEN i
    ELSE IndexFrom(s, x, i + 1)

\* re.findall(r"src:\s*url\(([^)]+)\)", s) scanning from lexeme i: each
\* match runs from a "src: url(" to the next ")", with at least one
\* character between; the group is what lies between
RECURSIVE FindAllUrls(_, _)
FindAllUrls(s, i) ==
    IF i > Len(s) THEN <<>>
    ELSE IF s[i] # SrcUrl THEN FindAllUrls(s, i + 1)
    ELSE LET j == IndexFrom(s, Paren, i + 1)
         IN  IF j = 0 THEN <<>>
             ELSE IF j = i + 1 THEN FindAllUrls(s, i + 1)
             ELSE <<SubSeq(s, i + 1, j - 1)>> \o FindAllUrls(s, j + 1)

\* re.search of the same pattern: the first match, None (<<>>) without one
SearchUrl(s) ==
    LET all == FindAllUrls(s, 1)
    IN  IF all = <<>> THEN <<>> ELSE <<all[1]>>

\* re.findall(face_pattern, s) scanning from lexeme i: each match is a
\* comment and "@font-face {", at least one character other than "}", and
\* the next "}"; the second group is what lies between the braces
RECURSIVE FindAllFaces(_, _)
FindAllFaces(s, i) ==
    IF i > Len(s) THEN <<>>
    ELSE IF s[i] # BlockOpen THEN FindAllFaces(s, i + 1)
    ELSE LET j == IndexFrom(s, BlockClose, i + 1)
         IN  IF j = 0 THEN <<>>
             ELSE IF j = i + 1 THEN FindAllFaces(s, i + 1)
             ELSE <<SubSeq(s, i + 1, j - 1)>> \o FindAllFaces(s, j + 1)

HasLexeme(s, x) == \E i \in 1..Len(s) : s[i] = x

\* lines 65-67
FormatOf(url) ==
    IF HasLexeme(url, UrlWoff2) THEN "woff2" ELSE "ttf"

\* lines 56-76 for one matched block: <<>> when the block has no src url
FaceOf(font_face_content) ==
    LET weight == IF HasLexeme(font_face_content, Weight700)
                  THEN "700" ELSE "400"
        style == IF HasLexeme(font_face_content, StyleItalic)
                 THEN "italic" ELSE "normal"
        url_match == SearchUrl(font_face_content)
    IN  IF url_match = <<>> THEN <<>>
        ELSE <<[subset |-> "latin", weight |-> weight, style |-> style,
                url |-> url_match[1], format |-> FormatOf(url_match[1])]>>

RECURSIVE FacesOf(_, _)
\* the loop of lines 55-76 from match i on
FacesOf(matches, i) ==
    IF i > Len(matches) THEN <<>>
    ELSE FaceOf(matches[i]) \o FacesOf(matches, i + 1)

\* lines 51-76: font_faces
ParseFontFaces(body) == FacesOf(FindAllFaces(body, 1), 1)

\* lines 78-84: set(all_urls)
ParseAllUrls(body) ==
    LET found == FindAllUrls(body, 1)
    IN  {found[i] : i \in 1..Len(found)}

PIdle == /\ css_content = <<>> /\ font_faces = <<>>
         /\ all_urls = {} /\ ppc = "idle"

PInit == /\ css_content \in Bodies
         /\ font_faces = <<>>
         /\ all_urls = {}
         /\ ppc = "call"

Parse ==
    /\ ppc = "call"
    /\ font_faces' = ParseFontFaces(css_content)
    /\ all_urls' = ParseAllUrls(css_content)
    /\ ppc' = "done"
    /\ UNCHANGED css_content

----------------------------------------------------------------------------
(* get_font_urls.  A network response is <<"ok", body>>, or <<e, <<>>>>    *)
(* for a request that raised e: requests.get raises ConnectionError on a   *)
(* transport error and raise_for_status raises HTTPError on a 4xx/5xx      *)
(* status.  A call ends <<"return", value>> or <<"raise", e>>.             *)

RequestErrors == {"ConnectionError", "HTTPError"}

Ok(body) == <<"ok", body>>
Err(e) == <<e, <<>>>>

\* a handler that catches transport errors only
IsRequestException_transport_only(e) == e = "ConnectionError"

\* `except requests.RequestException` (lines 11 and 87): both errors are
\* subclasses of RequestException
IsRequestException(e) == e \in RequestErrors

get_google_fonts_metadata(resp) ==
    IF resp[1] = "ok" THEN <<"return", <<resp[2]>>>>
    ELSE IF IsRequestException(resp[1]) THEN <<"return", NoMetadata>>
    ELSE <<"raise", resp[1]>>

\* line 44: the stylesheet request, of which the family is the varying part
CssUrl(correct) == Replace(correct, " ", "+")

\* lines 39-42: <<"continue", correct_family_name>> when the call goes on
\* to the stylesheet request
ResolveStep(name, metaResp) ==
    LET m == get_google_fonts_metadata(metaResp)
    IN  IF m[1] = "raise" THEN m
        ELSE LET correct == find_font_family(name, m[2])
             IN  IF correct = NotFound \/ correct = <<>>
                 THEN <<"return", <<>>>>
                 ELSE <<"continue", correct>>

\* lines 46-88, given the response to the stylesheet request
StylesheetStep(name, correct, cssResp) ==
    IF cssResp[1] = "ok"
    THEN <<"return", <<[family |-> name,
                        fonts |-> ParseFontFaces(cssResp[2]),
                        all_urls |-> ParseAllUrls(cssResp[2])]>>>>
    ELSE IF IsRequestException(cssResp[1]) THEN <<"return", <<>>>>
    ELSE <<"raise", cssResp[1]>>

\* the whole call, given the responses the two requests get (the second is
\* read only when the stylesheet request is issued)
get_font_urls(name, metaResp, cssResp) ==
    LET r == ResolveStep(name, metaResp)
    IN  IF r[1] = "continue" THEN StylesheetStep(name, r[2], cssResp)
        ELSE r

\* stylesheets the endpoint may answer with: nothing, a bare src url, the
\* one-block stylesheet of a single face, a block without src followed by
\* a bare src url, and two blocks
SampleBodies ==
    { <<>>,
      <<SrcUrl, UrlTtf, Paren>>,
      <<BlockOpen, Weight700, StyleItalic, SrcUrl, UrlWoff2, Paren,
        BlockClose>>,
      <<BlockOpen, Weight700, BlockClose, SrcUrl, UrlTtf, Paren>>,
      <<BlockOpen, SrcUrl, UrlWoff2, Paren, BlockClose,
        BlockOpen, Weight700, SrcUrl, UrlTtf, Paren, BlockClose>> }

CssResponses == {Ok(b) : b \in SampleBodies} \cup {Err(e) : e \in RequestErrors}
MetaResponses == {Ok(c) : c \in Catalogs} \cup {Err(e) : e \in RequestErrors}

FIdle == /\ family_name = <<>> /\ correct_family_name = NotFound
         /\ css_url = NotFound
         /\ font_data = <<>> /\ fpc = "idle"
         /\ metaRequests = 0 /\ cssRequests = 0
         /\ metaOutcome = "none" /\ cssOutcome = "none" /\ escaped = FALSE

FInit == /\ family_name \in Names
         /\ correct_family_name = NotFound
         /\ css_url = NotFound
         /\ font_data = <<>>
         /\ fpc = "metadata"
         /\ metaRequests = 0 /\ cssRequests = 0
         /\ metaOutcome = "none" /\ cssOutcome = "none" /\ escaped = FALSE

\* lines 39-42: the metadata request and what follows it
MetadataRequest ==
    /\ fpc = "metadata"
    /\ \E resp \in MetaResponses :
         LET r == ResolveStep(family_name, resp)
         IN  /\ metaRequests' = metaRequests + 1
             /\ metaOutcome' = resp[1]
             /\ escaped' = (r[1] = "raise")
             /\ correct_family_name' =
                    IF r[1] = "continue" THEN r[2] ELSE NotFound
             /\ css_url' = IF r[1] = "continue" THEN CssUrl(r[2]) ELSE NotFound
             /\ fpc' = IF r[1] = "continue" THEN "stylesheet" ELSE "done"
    /\ UNCHANGED <<family_name, font_data, cssRequests, cssOutcome>>

\* lines 44-88: the stylesheet request and what follows it
StylesheetRequest ==
    /\ fpc = "stylesheet"
    /\ \E resp \in CssResponses :
         LET r == StylesheetStep(family_name, correct_family_name, resp)
         IN  /\ cssRequests' = cssRequests + 1
             /\ cssOutcome' = resp[1]
             /\ escaped' = (r[1] = "raise")
             /\ font_data' = IF r[1] = "return" THEN r[2] ELSE <<>>
             /\ fpc' = "done"
    /\ UNCHANGED <<family_name, correct_family_name, css_url, metaRequests,
                   metaOutcome>>

----------------------------------------------------------------------------
(* main(page): the search handler filter_fonts, the apply handler          *)
(* new_font, and the threads filter_fonts starts with page.run_thread.     *)
(* A thread is suspended only between its steps below: the test of line    *)
(* 221, the call of get_font_urls, and the two writes of update_fonts.     *)

\* most threads page.run_thread is let to start
MaxThreads == 2

\* the limit filter_fonts passes to list_available_fonts (line 173)
ListLimit == 1000
\* the number of rows filter_fonts shows (line 183)
ShowLimit == 15

Threads == 1..MaxThreads

FamilyOne == <<"A", " ", "b">>
FamilyTwo == <<"a", "-", "b">>
MainCatalog == <<FamilyOne, FamilyTwo>>

\* what the user may have in the text field: a blank, a text both
\* families contain, and a family picked from the list
TypedTexts == {<<" ">>, <<"b">>, FamilyOne}

\* what the two endpoints may answer while the page runs
MainMetaResponses == {Ok(MainCatalog), Err("ConnectionError")}
MainCssResponses ==
    { Ok(<<>>),
      Ok(<<BlockOpen, SrcUrl, UrlWoff2, Paren, BlockClose,
           BlockOpen, Weight700, SrcUrl, UrlTtf, Paren, BlockClose>>),
      Err("HTTPError") }

NoFont == <<"None">>
NoUrl == <<>>
EmptyDict == [k \in {} |-> NoUrl]

\* d[k] = v on a dict
DictSet(d, k, v) ==
    [x \in DOMAIN d \cup {k} |-> IF x = k THEN v ELSE d[x]]

\* lines 184-186
FontKey(family) ==
    <<"preview_">> \o Replace(Replace(family, " ", "_"), "-", "_")

\* lines 173-178 and 183: the rows of one search
RECURSIVE FilterRows(_, _, _)
FilterRows(rows, search_lower, i) ==
    IF i > Len(rows) THEN <<>>
    ELSE (IF Contains(search_lower, Lower(rows[i].family))
          THEN <<rows[i]>> ELSE <<>>)
         \o FilterRows(rows, search_lower, i + 1)

ShownRows(search_term, metaResp) ==
    LET m == get_google_fonts_metadata(metaResp)
        rows == IF m[1] = "raise" THEN <<>>
                ELSE list_available_fonts(ListLimit, m[2])
        filtered == FilterRows(rows, Lower(search_term), 1)
    IN  SubSeq(filtered, 1,
               IF Len(filtered) < ShowLimit THEN Len(filtered) ELSE ShowLimit)

\* the families of the shown rows for which line 255 starts a thread, in
\* row order
RECURSIVE ToLoad(_, _, _)
ToLoad(rows, cache, i) ==
    IF i > Len(rows) THEN <<>>
    ELSE (IF FontKey(rows[i].family) \notin DOMAIN cache
          THEN <<rows[i].family>> ELSE <<>>)
         \o ToLoad(rows, cache, i + 1)

MIdle == /\ preview_fonts = EmptyDict /\ fonts = EmptyDict
         /\ theme_font_family = NoFont
         /\ pc = <<>> /\ tfamily = <<>> /\ turl = <<>> /\ nthreads = 0
         /\ failedKeys = {} /\ afterFail = <<>>

\* lines 117-124 and 293
MInit == /\ preview_fonts = EmptyDict
         /\ fonts = EmptyDict
         /\ theme_font_family = NoFont
         /\ pc = [t \in Threads |-> "unused"]
         /\ tfamily = [t \in Threads |-> <<>>]
         /\ turl = [t \in Threads |-> NoUrl]
         /\ nthreads = 0
         /\ failedKeys = {}
         /\ afterFail = [t \in Threads |-> FALSE]

\* filter_fonts(search_term) (lines 161-265): one thread is started for
\* each shown row whose key is not in page._preview_fonts.  The rows of one
\* search have different keys here, so a thread that runs while the loop is
\* still going changes none of the loop's tests of line 255.
FilterFonts(search_term, metaResp) ==
    IF IsBlank(search_term) THEN UNCHANGED mvars
    ELSE LET started == ToLoad(ShownRows(search_term, metaResp),
                               preview_fonts, 1)
             n == Len(started)
         IN  /\ nthreads + n <= MaxThreads
             /\ nthreads' = nthreads + n
             /\ pc' = [t \in Threads |->
                         IF nthreads < t /\ t <= nthreads + n
                         THEN "start" ELSE pc[t]]
             /\ tfamily' = [t \in Threads |->
                         IF nthreads < t /\ t <= nthreads + n
                         THEN started[t - nthreads] ELSE tfamily[t]]
             /\ UNCHANGED <<preview_fonts, fonts, theme_font_family, turl,
                            failedKeys, afterFail>>

\* load_font, lines 221-222
LoadCheck(t) ==
    /\ pc[t] = "start"
    /\ pc' = [pc EXCEPT ![t] =
                IF FontKey(tfamily[t]) \in DOMAIN preview_fonts
                THEN "done" ELSE "fetching"]
    /\ afterFail' = [afterFail EXCEPT ![t] =
                        FontKey(tfamily[t]) \in failedKeys]
    /\ UNCHANGED <<preview_fonts, fonts, theme_font_family, tfamily, turl,
                   nthreads, failedKeys>>

\* the urls a finished call of get_font_urls lets lines 225-226 (and
\* 145-150) pick from: all_urls[0] of list(set(...)) is any of the set;
\* none when the call returned None or an empty all_urls, or raised
UsableUrls(r) ==
    IF r[1] = "return" /\ r[2] # <<>> THEN r[2][1].all_urls ELSE {}

\* load_font, lines 224-226, when the test of line 225 passes
FetchOk(t, metaResp, cssResp) ==
    /\ pc[t] = "fetching"
    /\ \E font_url \in
           UsableUrls(get_font_urls(tfamily[t], metaResp, cssResp)) :
         turl' = [turl EXCEPT ![t] = font_url]
    /\ pc' = [pc EXCEPT ![t] = "write_preview"]
    /\ UNCHANGED <<preview_fonts, fonts, theme_font_family, tfamily,
                   nthreads, failedKeys, afterFail>>

\* a failed load that leaves a marker under the key
FetchFail_marking(t, metaResp, cssResp) ==
    /\ pc[t] = "fetching"
    /\ UsableUrls(get_font_urls(tfamily[t], metaResp, cssResp)) = {}
    /\ pc' = [pc EXCEPT ![t] = "done"]
    /\ preview_fonts' = DictSet(preview_fonts, FontKey(tfamily[t]), NoUrl)
    /\ failedKeys' = failedKeys \cup {FontKey(tfamily[t])}
    /\ UNCHANGED <<fonts, theme_font_family, tfamily, turl,
                   nthreads, afterFail>>

\* load_font, lines 224-225 and 250-251, when the test of line 225 fails
\* or the call raised: nothing is written
FetchFail(t, metaResp, cssResp) ==
    /\ pc[t] = "fetching"
    /\ UsableUrls(get_font_urls(tfamily[t], metaResp, cssResp)) = {}
    /\ pc' = [pc EXCEPT ![t] = "done"]
    /\ failedKeys' = failedKeys \cup {FontKey(tfamily[t])}
    /\ UNCHANGED <<preview_fonts, fonts, theme_font_family, tfamily, turl,
                   nthreads, afterFail>>

\* update_fonts, line 230
WritePreview(t) ==
    /\ pc[t] = "write_preview"
    /\ preview_fonts' = DictSet(preview_fonts, FontKey(tfamily[t]), turl[t])
    /\ pc' = [pc EXCEPT ![t] = "write_fonts"]
    /\ UNCHANGED <<fonts, theme_font_family, tfamily, turl, nthreads,
                   failedKeys, afterFail>>

\* update_fonts, line 231 (the tile and page.update() are the shell's)
WriteFonts(t) ==
    /\ pc[t] = "write_fonts"
    /\ fonts' = DictSet(fonts, FontKey(tfamily[t]), turl[t])
    /\ pc' = [pc EXCEPT ![t] = "done"]
    /\ UNCHANGED <<preview_fonts, theme_font_family, tfamily, turl,
                   nthreads, failedKeys, afterFail>>

\* new_font(name) (lines 134-159); the second call of get_font_urls, in
\* show_font_options (line 153), changes nothing
NewFont(name, metaResp, cssResp) ==
    LET urls == UsableUrls(get_font_urls(name, metaResp, cssResp))
    IN  IF IsBlank(name) \/ urls = {} THEN UNCHANGED mvars
        ELSE /\ \E u \in urls : fonts' = (name :> u)
             /\ theme_font_family' = name
             /\ UNCHANGED <<preview_fonts, pc, tfamily, turl, nthreads,
                            failedKeys, afterFail>>

----------------------------------------------------------------------------
(* Specifications *)

Init == MInit /\ RIdle /\ LIdle /\ PIdle /\ FIdle

ovars == <<rvars, lvars, pvars, fvars>>

Next ==
    \/ \E s \in TypedTexts, m \in MainMetaResponses :
         FilterFonts(s, m) /\ UNCHANGED ovars
    \/ \E s \in TypedTexts, m \in MainMetaResponses,
          c \in MainCssResponses :
         NewFont(s, m, c) /\ UNCHANGED ovars
    \/ \E t \in Threads : LoadCheck(t) /\ UNCHANGED ovars
    \/ \E t \in Threads, m \in MainMetaResponses, c \in MainCssResponses :
         FetchOk(t, m, c) /\ UNCHANGED ovars
    \/ \E t \in Threads, m \in MainMetaResponses, c \in MainCssResponses :
         FetchFail(t, m, c) /\ UNCHANGED ovars
    \/ \E t \in Threads : WritePreview(t) /\ UNCHANGED ovars
    \/ \E t \in Threads : WriteFonts(t) /\ UNCHANGED ovars

Spec == Init /\ [][Next]_vars

ResolveInit == RInit /\ LIdle /\ PIdle /\ FIdle /\ MIdle
ResolveNext == Resolve /\ UNCHANGED <<lvars, pvars, fvars, mvars>>
SpecResolve == ResolveInit /\ [][ResolveNext]_vars

ListInit == LInit /\ RIdle /\ PIdle /\ FIdle /\ MIdle
ListNext == ListFonts /\ UNCHANGED <<rvars, pvars, fvars, mvars>>
SpecList == ListInit /\ [][ListNext]_vars

ParseInit == PInit /\ RIdle /\ LIdle /\ FIdle /\ MIdle
ParseNext == Parse /\ UNCHANGED <<rvars, lvars, fvars, mvars>>
SpecParse == ParseInit /\ [][ParseNext]_vars

FetchInit == FInit /\ RIdle /\ LIdle /\ PIdle /\ MIdle
FetchNext ==
    \/ MetadataRequest /\ UNCHANGED <<rvars, lvars, pvars, mvars>>
    \/ StylesheetRequest /\ UNCHANGED <<rvars, lvars, pvars, mvars>>
SpecFetch == FetchInit /\ [][FetchNext]_vars

----------------------------------------------------------------------------
(* The preview cache (Spec) *)

KeyOf(t) == FontKey(tfamily[t])

\* C1: for one cache key, at most one thread is inside its stylesheet
\* fetch at any time.
C1_AtMostOneFetchInFlight ==
    \A t1, t2 \in Threads :
        (pc[t1] = "fetching" /\ pc[t2] = "fetching" /\ KeyOf(t1) = KeyOf(t2))
            => t1 = t2

\* C2: once a key holds a url, no step changes or removes that url, and no
\* thread begins a fetch for that key.
C2_ResolvedIsTerminal ==
    [][\A k \in DOMAIN preview_fonts :
          /\ k \in DOMAIN preview_fonts'
          /\ preview_fonts'[k] = preview_fonts[k]
          /\ \A t \in Threads :
                (pc'[t] = "fetching" /\ FontKey(tfamily'[t]) = k)
                    => pc[t] = "fetching"]_vars

\* C3: a load that fails writes nothing to the cache, so the cache never
\* holds anything but urls and the failed key stays absent unless another
\* load resolves it; and a thread started later for a key that failed and is
\* still absent passes the test of line 221 and fetches again.
C3_FailedLoadDoesNotBlock ==
    /\ [](\A k \in DOMAIN preview_fonts : preview_fonts[k] # NoUrl)
    /\ [][\A t \in Threads :
            /\ (pc[t] = "fetching" /\ pc'[t] = "done")
                   => preview_fonts' = preview_fonts
            /\ (/\ pc[t] = "start" /\ pc'[t] # "start"
                /\ KeyOf(t) \in failedKeys
                /\ KeyOf(t) \notin DOMAIN preview_fonts)
                   => pc'[t] = "fetching"]_vars

\* a thread is fetching again for a key whose earlier load failed
C3_Witness ==
    \E t \in Threads :
        /\ pc[t] = "fetching" /\ afterFail[t]
        /\ KeyOf(t) \in failedKeys
        /\ KeyOf(t) \notin DOMAIN preview_fonts

\* C10: whenever no thread is between the two writes of update_fonts, every
\* key of page._preview_fonts is a key of page.fonts with the same url.
C10_CachedKeysRegistered ==
    (\A t \in Threads : pc[t] # "write_fonts")
        => \A k \in DOMAIN preview_fonts :
               k \in DOMAIN fonts /\ fonts[k] = preview_fonts[k]

----------------------------------------------------------------------------
(* The resolver (SpecResolve) *)

ExactAt(i) == Lower(metadata[1][i]) = Lower(search_name)
ContainsAt(i) == Contains(Lower(search_name), Lower(metadata[1][i]))
CatIndices == IF metadata = NoMetadata THEN {} ELSE 1..Len(metadata[1])

\* C4: with an entry equal to the query ignoring case in the catalog, the
\* result is such an entry, whatever precedes it; without one, the result is
\* the first entry containing the query, and None when there is none.
C4_ExactBeforeSubstring ==
    (rpc = "done" /\ metadata # NoMetadata) =>
        IF \E i \in CatIndices : ExactAt(i)
        THEN \E i \in CatIndices : ExactAt(i) /\ resolved = metadata[1][i]
        ELSE IF \E i \in CatIndices : ContainsAt(i)
        THEN \E i \in CatIndices :
                /\ ContainsAt(i)
                /\ \A j \in 1..(i - 1) : ~ContainsAt(j)
                /\ resolved = metadata[1][i]
        ELSE resolved = NotFound

\* an entry that only contains the query precedes the one that equals it,
\* and the latter is returned
C4_Witness ==
    /\ rpc = "done"
    /\ \E i, j \in CatIndices :
          /\ i < j
          /\ ContainsAt(i) /\ ~ExactAt(i)
          /\ ExactAt(j) /\ resolved = metadata[1][j]

\* C5 as stated: resolving the name of a catalog entry gives back exactly
\* that name.
C5_ResolveEntryIsIdentity ==
    (rpc = "done" /\ \E i \in CatIndices : metadata[1][i] = search_name)
        => resolved = search_name

\* C5 amended: resolving the name of a catalog entry gives the first entry
\* in catalog order equal to it ignoring case, which is that very name
\* unless an entry differing from it only in letter case comes earlier.
C5_ResolveEntryIsFirstCaseVariant ==
    (rpc = "done" /\ \E i \in CatIndices : metadata[1][i] = search_name)
        => \E i \in CatIndices :
              /\ ExactAt(i)
              /\ \A j \in 1..(i - 1) : ~ExactAt(j)
              /\ resolved = metadata[1][i]
              /\ (metadata[1][i] # search_name
                     => \E j \in CatIndices :
                           i < j /\ metadata[1][j] = search_name)

\* the query is an entry, and an earlier entry differs from it only in
\* letter case
C5_Witness ==
    /\ rpc = "done"
    /\ \E i, j \in CatIndices :
          /\ i < j
          /\ metadata[1][j] = search_name
          /\ metadata[1][i] # search_name /\ ExactAt(i)
          /\ \A k \in 1..(j - 1) : metadata[1][k] # search_name
    /\ resolved # search_name

----------------------------------------------------------------------------
(* get_font_urls (SpecFetch) *)

\* C6: the family of a returned result is the resolved catalog name, the
\* one the stylesheet request was built from.
C6_FamilyIsResolvedName ==
    (fpc = "done" /\ font_data # <<>>) =>
        /\ font_data[1].family = correct_family_name
        /\ CssUrl(font_data[1].family) = css_url

\* C7: no exception leaves get_font_urls, no request is issued twice, a
\* failed metadata request ends the call with no stylesheet request, and a
\* call in which either request failed returns None.
C7_ErrorsReturnFailure ==
    /\ ~escaped
    /\ metaRequests <= 1 /\ cssRequests <= 1
    /\ metaOutcome \in RequestErrors => (fpc = "done" /\ cssRequests = 0)
    /\ (fpc = "done"
        /\ (metaOutcome \in RequestErrors \/ cssOutcome \in RequestErrors))
           => font_data = <<>>

\* the stylesheet request ended in a status error and the call is over
C7_Witness ==
    /\ fpc = "done"
    /\ metaOutcome = "ok" /\ cssRequests = 1 /\ cssOutcome = "HTTPError"

----------------------------------------------------------------------------
(* The stylesheet parser (SpecParse) *)

\* C8: the url of every parsed face is among all_urls, so all_urls is not
\* empty when there is a face.
C8_AllUrlsCoverFonts ==
    ppc = "done" =>
        /\ \A i \in 1..Len(font_faces) : font_faces[i].url \in all_urls
        /\ font_faces # <<>> => all_urls # {}

----------------------------------------------------------------------------
(* list_available_fonts (SpecList) *)

NamedEntries ==
    IF lmetadata = NoMetadata THEN <<>>
    ELSE SelectSeq(lmetadata[1], LAMBDA n : n # <<>>)

\* C9: the list has at most `limit` rows, none with an empty name, and is
\* the start of the catalog's named entries.
C9_AtMostLimit ==
    lpc = "done" =>
        /\ Len(listed) <= limit
        /\ Len(listed) <= Len(NamedEntries)
        /\ \A i \in 1..Len(listed) :
              /\ listed[i].family # <<>>
              /\ listed[i].family = NamedEntries[i]

====
